---- MODULE Spec2Model ----
(***************************************************************************)
(* A model of the FigJam change tracker (src/tracker.py): the snapshot     *)
(* store of FigmaTracker (one JSON file per timestamp plus index.json),    *)
(* compare_snapshots, the diff of two stored snapshots, the node parsers   *)
(* that extract a snapshot from a FigJam response, and the construction of *)
(* a tracker for a board (src/config.py).                                  *)
(*                                                                         *)
(* Representation.  A timestamp string is a positive integer, ordered as   *)
(* the strings are ordered; the empty string is 0; Python's None is -1;    *)
(* the "(none)" placeholder of an empty report is -2.  A text is a         *)
(* sequence of characters.  x and y are integers.  A formatted string     *)
(* (change description, details) is the tuple of the values formatted     *)
(* into it.  datetime.now() is the counter clock, one tick per save.       *)
(***************************************************************************)
EXTENDS Integers, Sequences, FiniteSets, TLC

VARIABLES
    files,       \* snapshot_dir: timestamp -> content of <timestamp>.json
    index_file,  \* snapshot_dir / "index.json"
    clock,       \* datetime.now()
    last,        \* the last call on the tracker and its arguments
    result,      \* what that call returned
    board_dirs,  \* the boards whose snapshot directory exists
    calls        \* the save_snapshot calls in progress, step by step

vars == <<files, index_file, clock, last, result, board_dirs, calls>>

(***************************************************************************)
(* Bounds                                                                  *)
(***************************************************************************)
MaxNodes == 2
MaxSaves == 3
MaxElements == 2
MaxAttrs == 2
MaxParses == 2
MaxLength == 4

Timestamps == {1, 2}
NodeIds == {"n1", "n2", "n3"}

(***************************************************************************)
(* Values                                                                  *)
(***************************************************************************)
None == -1
EmptyStr == 0
NonePlaceholder == -2

BoardName == "test-board"
BoardConfig == [file_key |-> "key", node_id |-> "id"]

\* The boards configured: the one of config.py and the one of the tests.
FIGMA_BOARDS ==
    [b \in {"decision-tree", BoardName} |->
        IF b = BoardName THEN BoardConfig
        ELSE [file_key |-> "UKiEtHKGhIDRnBGTVhsoL5", node_id |-> "2419:3646"]]

DEFAULT_FIGMA_BOARD == "decision-tree"

Absent == [absent |-> TRUE]

(***************************************************************************)
(* FigmaNode                                                               *)
(***************************************************************************)
NodeFields ==
    {"id", "node_type", "name", "x", "y", "width", "height", "text", "color",
     "author", "connector_start", "connector_end", "connector_start_cap",
     "connector_end_cap"}

\* The value of each field that Python takes as false ("" or 0); for every
\* field but id and node_type it is also the dataclass default.
FalsyNode ==
    [id |-> "", node_type |-> "", name |-> "", x |-> 0, y |-> 0, width |-> 0,
     height |-> 0, text |-> <<>>, color |-> "", author |-> "",
     connector_start |-> "", connector_end |-> "", connector_start_cap |-> "",
     connector_end_cap |-> ""]

FigmaNode(id, node_type) ==
    [FalsyNode EXCEPT !.id = id, !.node_type = node_type]

\* Mutant: every field kept.
NodeToDict_every_field(n) == [f \in NodeFields |-> n[f]]

\* FigmaNode.to_dict: the fields whose value is not false.
NodeToDict(n) ==
    [f \in {g \in NodeFields : n[g] # FalsyNode[g]} |-> n[f]]

\* FigmaNode(**n): an omitted field takes its default.  id and node_type are
\* never omitted: every node saved has both non-empty.
NodeFromDict(d) ==
    [f \in NodeFields |-> IF f \in DOMAIN d THEN d[f] ELSE FalsyNode[f]]

(***************************************************************************)
(* FigmaSnapshot                                                           *)
(***************************************************************************)
FigmaSnapshot(timestamp, nodes) ==
    [board_name |-> BoardName, file_key |-> BoardConfig.file_key,
     node_id |-> BoardConfig.node_id, timestamp |-> timestamp,
     section_name |-> "", section_id |-> "", nodes |-> nodes,
     raw_content |-> "raw"]

SnapshotToDict(s) ==
    [board_name |-> s.board_name, file_key |-> s.file_key,
     node_id |-> s.node_id, timestamp |-> s.timestamp,
     section_name |-> s.section_name, section_id |-> s.section_id,
     node_count |-> Len(s.nodes),
     nodes |-> [k \in 1..Len(s.nodes) |-> NodeToDict(s.nodes[k])],
     raw_content |-> s.raw_content]

SnapshotFromDict(data) ==
    [board_name |-> data.board_name, file_key |-> data.file_key,
     node_id |-> data.node_id, timestamp |-> data.timestamp,
     section_name |-> data.section_name, section_id |-> data.section_id,
     nodes |-> [k \in 1..Len(data.nodes) |-> NodeFromDict(data.nodes[k])],
     raw_content |-> data.raw_content]

(***************************************************************************)
(* NodeChange and ChangeReport                                             *)
(***************************************************************************)
NodeChange(change_type, node_id, node_type) ==
    [change_type |-> change_type, node_id |-> node_id, node_type |-> node_type,
     name |-> "", old_text |-> <<>>, new_text |-> <<>>, details |-> <<>>]

ChangeReport(from_snapshot, to_snapshot) ==
    [board_name |-> BoardName, from_snapshot |-> from_snapshot,
     to_snapshot |-> to_snapshot, added |-> <<>>, removed |-> <<>>,
     modified |-> <<>>]

has_changes(report) ==
    report.added # <<>> \/ report.removed # <<>> \/ report.modified # <<>>

(***************************************************************************)
(* The index                                                               *)
(***************************************************************************)
Filename(timestamp) == <<timestamp, ".json">>

load_index ==
    IF index_file.exists
    THEN index_file.data
    ELSE [board_name |-> BoardName, file_key |-> BoardConfig.file_key,
          node_id |-> BoardConfig.node_id, snapshots |-> <<>>,
          total_snapshots |-> 0, last_updated |-> None]

\* list.sort(key=timestamp, reverse=True): stable, so an entry goes after
\* every entry whose timestamp is not smaller.
RECURSIVE InsertDesc(_, _)
InsertDesc(sorted, e) ==
    IF sorted = <<>> THEN <<e>>
    ELSE IF Head(sorted).timestamp >= e.timestamp
         THEN <<Head(sorted)>> \o InsertDesc(Tail(sorted), e)
         ELSE <<e>> \o sorted

RECURSIVE SortDesc(_)
SortDesc(entries) ==
    IF entries = <<>> THEN <<>>
    ELSE InsertDesc(SortDesc(SubSeq(entries, 1, Len(entries) - 1)),
                    entries[Len(entries)])

list_snapshots == SortDesc(load_index.snapshots)

IndexEntry(snapshot, now) ==
    [timestamp |-> snapshot.timestamp,
     filename |-> Filename(snapshot.timestamp),
     node_count |-> Len(snapshot.nodes),
     section_name |-> snapshot.section_name,
     created_at |-> now]

\* Mutant: total_snapshots left as it was read.
update_index_stale_total(snapshot) ==
    LET index == load_index
        entries == Append(index.snapshots, IndexEntry(snapshot, clock))
    IN [exists |-> TRUE,
        data |-> [index EXCEPT !.snapshots = entries,
                               !.last_updated = clock]]

update_index(snapshot) ==
    LET index == load_index
        entries == Append(index.snapshots, IndexEntry(snapshot, clock))
    IN [exists |-> TRUE,
        data |-> [index EXCEPT !.snapshots = entries,
                               !.last_updated = clock,
                               !.total_snapshots = Len(entries)]]

WriteFile(timestamp, data) ==
    [t \in DOMAIN files \cup {timestamp} |->
        IF t = timestamp THEN data ELSE files[t]]

\* Mutant: with no timestamp, the oldest listed snapshot.
load_snapshot_oldest(timestamp) ==
    IF timestamp = None /\ list_snapshots = <<>> THEN Absent
    ELSE LET ts == IF timestamp = None
                   THEN list_snapshots[Len(list_snapshots)].timestamp
                   ELSE timestamp
         IN IF ts \notin DOMAIN files THEN Absent
            ELSE SnapshotFromDict(files[ts])

load_snapshot(timestamp) ==
    IF timestamp = None /\ list_snapshots = <<>> THEN Absent
    ELSE LET ts == IF timestamp = None
                   THEN list_snapshots[1].timestamp ELSE timestamp
         IN IF ts \notin DOMAIN files THEN Absent
            ELSE SnapshotFromDict(files[ts])

\* get_snapshot_summary: the number of entities of each kind among them.
get_snapshot_summary(timestamp) ==
    LET snapshot == load_snapshot(timestamp)
    IN IF snapshot = Absent THEN Absent
       ELSE [board_name |-> snapshot.board_name,
             timestamp |-> snapshot.timestamp,
             section_name |-> snapshot.section_name,
             total_nodes |-> Len(snapshot.nodes),
             node_types |->
                [t \in {snapshot.nodes[k].node_type :
                           k \in DOMAIN snapshot.nodes} |->
                    Cardinality({k \in DOMAIN snapshot.nodes :
                                    snapshot.nodes[k].node_type = t})]]

(***************************************************************************)
(* Construction.  The board_name argument is <<>> when it is not given     *)
(* and <<b>> when it is the string b.                                      *)
(***************************************************************************)
\* config.get_figma_board_config: the configuration, or <<>> for None.
get_figma_board_config(board_name) ==
    IF board_name \in DOMAIN FIGMA_BOARDS
    THEN <<FIGMA_BOARDS[board_name]>> ELSE <<>>

\* The path of a board's snapshot directory, and of a file in it.
BoardDir(board_name) == <<"snapshots", board_name>>

\* config.get_figma_board_dir: the directory, which it creates.
get_figma_board_dir(board_name, dirs) ==
    [path |-> BoardDir(board_name), dirs |-> dirs \cup {board_name}]

ValueError(board_name) ==
    [raised |-> "ValueError", message |-> <<"Unknown board: ", board_name>>]

Tracker(board_name, board_config, snapshot_dir) ==
    [board_name |-> board_name, board_config |-> board_config,
     snapshot_dir |-> snapshot_dir,
     index_file |-> snapshot_dir \o <<"index.json">>]

\* Mutant: the directory resolved before the configuration is looked at.
FigmaTracker_dir_first(board_name, dirs) ==
    LET name == IF board_name = <<>> \/ board_name = <<"">>
                THEN DEFAULT_FIGMA_BOARD ELSE board_name[1]
        board_config == get_figma_board_config(name)
        dir == get_figma_board_dir(name, dirs)
    IN IF board_config = <<>>
       THEN [result |-> ValueError(name), dirs |-> dir.dirs]
       ELSE [result |-> Tracker(name, board_config[1], dir.path),
             dirs |-> dir.dirs]

\* FigmaTracker.__init__: what the call returns or raises, and the
\* directories that exist after it.
FigmaTracker(board_name, dirs) ==
    LET name == IF board_name = <<>> \/ board_name = <<"">>
                THEN DEFAULT_FIGMA_BOARD ELSE board_name[1]
        board_config == get_figma_board_config(name)
    IN IF board_config = <<>>
       THEN [result |-> ValueError(name), dirs |-> dirs]
       ELSE LET dir == get_figma_board_dir(name, dirs)
            IN [result |-> Tracker(name, board_config[1], dir.path),
                dirs |-> dir.dirs]

(***************************************************************************)
(* compare_snapshots                                                       *)
(***************************************************************************)
\* `value or default`
Or(value, default) ==
    IF value = None \/ value = EmptyStr THEN default ELSE value

\* Mutant: the defaults taken whatever timestamps are given.
resolve_comparison_timestamps_defaults(from_timestamp, to_timestamp) ==
    LET snapshots == list_snapshots
    IN IF Len(snapshots) < 2 THEN <<None, None>>
       ELSE <<snapshots[2].timestamp, snapshots[1].timestamp>>

resolve_comparison_timestamps(from_timestamp, to_timestamp) ==
    LET snapshots == list_snapshots
    IN IF Len(snapshots) < 2 THEN <<None, None>>
       ELSE <<IF from_timestamp = None
              THEN snapshots[2].timestamp ELSE from_timestamp,
              IF to_timestamp = None
              THEN snapshots[1].timestamp ELSE to_timestamp>>

\* Mutant: the timestamps as given, None kept, no "(none)" placeholder.
empty_change_report_no_placeholder(from_snapshot, to_snapshot) ==
    ChangeReport(from_snapshot, to_snapshot)

\* Mutant: the placeholder always, whatever the timestamps.
empty_change_report_always_placeholder(from_snapshot, to_snapshot) ==
    ChangeReport(NonePlaceholder, NonePlaceholder)

empty_change_report(from_snapshot, to_snapshot) ==
    ChangeReport(Or(from_snapshot, NonePlaceholder),
                 Or(to_snapshot, NonePlaceholder))

\* {n.id: n for n in nodes}: the last node of an id is the one kept.
NodeMap(nodes) ==
    [i \in {nodes[k].id : k \in DOMAIN nodes} |->
        nodes[CHOOSE k \in DOMAIN nodes :
                 /\ nodes[k].id = i
                 /\ \A j \in DOMAIN nodes : nodes[j].id = i => j <= k]]

\* Iterating over a Python set of strings: any order, each member once.
Orderings(S) ==
    {o \in [1..Cardinality(S) -> S] :
        \A i, j \in 1..Cardinality(S) : i # j => o[i] # o[j]}

PreviewLength == 40

\* Mutant: a text of exactly max_length characters is cut as well.
truncate_text_at_length(text, max_length) ==
    IF Len(text) >= max_length
    THEN SubSeq(text, 1, max_length) \o <<".", ".", ".">>
    ELSE text

truncate_text(text, max_length) ==
    IF Len(text) > max_length
    THEN SubSeq(text, 1, max_length) \o <<".", ".", ".">>
    ELSE text

\* Mutant: every id of the new snapshot, the old ids not taken away.
AddedIds_all_new(old_nodes, new_nodes) == DOMAIN new_nodes

AddedIds(old_nodes, new_nodes) == DOMAIN new_nodes \ DOMAIN old_nodes

RemovedIds(old_nodes, new_nodes) == DOMAIN old_nodes \ DOMAIN new_nodes

CommonIds(old_nodes, new_nodes) == DOMAIN old_nodes \cap DOMAIN new_nodes

\* Mutant: the text put in old_text.
AddedChange_old_text(node_id, node) ==
    [NodeChange("added", node_id, node.node_type)
        EXCEPT !.name = node.name, !.old_text = node.text]

AddedChange(node_id, node) ==
    [NodeChange("added", node_id, node.node_type)
        EXCEPT !.name = node.name, !.new_text = node.text]

\* Mutant: the name left out.
RemovedChange_no_name(node_id, node) ==
    [NodeChange("removed", node_id, node.node_type)
        EXCEPT !.old_text = node.text]

RemovedChange(node_id, node) ==
    [NodeChange("removed", node_id, node.node_type)
        EXCEPT !.name = node.name, !.old_text = node.text]

\* Mutant: the connector fields compared when the new entity is a connector.
detect_node_changes_new_kind(old_node, new_node, ignore_positions) ==
    (IF old_node.text # new_node.text THEN << <<"text changed">> >> ELSE <<>>)
    \o (IF old_node.name # new_node.name
        THEN << <<"name", old_node.name, new_node.name>> >> ELSE <<>>)
    \o (IF new_node.node_type = "connector"
        THEN (IF old_node.connector_start # new_node.connector_start
              THEN << <<"start", old_node.connector_start,
                        new_node.connector_start>> >>
              ELSE <<>>)
             \o (IF old_node.connector_end # new_node.connector_end
                 THEN << <<"end", old_node.connector_end,
                           new_node.connector_end>> >>
                 ELSE <<>>)
        ELSE <<>>)
    \o (IF ~ignore_positions /\ (old_node.x # new_node.x \/ old_node.y # new_node.y)
        THEN << <<"moved", <<old_node.x, old_node.y>>,
                  <<new_node.x, new_node.y>> >> >>
        ELSE <<>>)

\* Mutant: the old x compared with the new y.
detect_node_changes_x_with_y(old_node, new_node, ignore_positions) ==
    (IF old_node.text # new_node.text THEN << <<"text changed">> >> ELSE <<>>)
    \o (IF old_node.name # new_node.name
        THEN << <<"name", old_node.name, new_node.name>> >> ELSE <<>>)
    \o (IF old_node.node_type = "connector"
        THEN (IF old_node.connector_start # new_node.connector_start
              THEN << <<"start", old_node.connector_start,
                        new_node.connector_start>> >>
              ELSE <<>>)
             \o (IF old_node.connector_end # new_node.connector_end
                 THEN << <<"end", old_node.connector_end,
                           new_node.connector_end>> >>
                 ELSE <<>>)
        ELSE <<>>)
    \o (IF ~ignore_positions /\ (old_node.x # new_node.y \/ old_node.y # new_node.y)
        THEN << <<"moved", <<old_node.x, old_node.y>>,
                  <<new_node.x, new_node.y>> >> >>
        ELSE <<>>)

\* Mutant: a color that differs is a change too.
detect_node_changes_color(old_node, new_node, ignore_positions) ==
    (IF old_node.text # new_node.text THEN << <<"text changed">> >> ELSE <<>>)
    \o (IF old_node.name # new_node.name
        THEN << <<"name", old_node.name, new_node.name>> >> ELSE <<>>)
    \o (IF old_node.color # new_node.color
        THEN << <<"color", old_node.color, new_node.color>> >> ELSE <<>>)
    \o (IF old_node.node_type = "connector"
        THEN (IF old_node.connector_start # new_node.connector_start
              THEN << <<"start", old_node.connector_start,
                        new_node.connector_start>> >>
              ELSE <<>>)
             \o (IF old_node.connector_end # new_node.connector_end
                 THEN << <<"end", old_node.connector_end,
                           new_node.connector_end>> >>
                 ELSE <<>>)
        ELSE <<>>)
    \o (IF ~ignore_positions /\ (old_node.x # new_node.x \/ old_node.y # new_node.y)
        THEN << <<"moved", <<old_node.x, old_node.y>>,
                  <<new_node.x, new_node.y>> >> >>
        ELSE <<>>)

detect_node_changes(old_node, new_node, ignore_positions) ==
    (IF old_node.text # new_node.text THEN << <<"text changed">> >> ELSE <<>>)
    \o (IF old_node.name # new_node.name
        THEN << <<"name", old_node.name, new_node.name>> >> ELSE <<>>)
    \o (IF old_node.node_type = "connector"
        THEN (IF old_node.connector_start # new_node.connector_start
              THEN << <<"start", old_node.connector_start,
                        new_node.connector_start>> >>
              ELSE <<>>)
             \o (IF old_node.connector_end # new_node.connector_end
                 THEN << <<"end", old_node.connector_end,
                           new_node.connector_end>> >>
                 ELSE <<>>)
        ELSE <<>>)
    \o (IF ~ignore_positions /\ (old_node.x # new_node.x \/ old_node.y # new_node.y)
        THEN << <<"moved", <<old_node.x, old_node.y>>,
                  <<new_node.x, new_node.y>> >> >>
        ELSE <<>>)

\* Mutant: the other changes as a third line after the two texts.
format_change_details_all(old_node, new_node, changes) ==
    IF old_node.text # new_node.text
    THEN << <<"- ", truncate_text(old_node.text, PreviewLength)>>,
            <<"+ ", truncate_text(new_node.text, PreviewLength)>>,
            <<", ", Tail(changes)>> >>
    ELSE << <<", ", changes>> >>

\* The parts that "\n    " joins; ", ".join(changes) is one part.
format_change_details(old_node, new_node, changes) ==
    IF old_node.text # new_node.text
    THEN << <<"- ", truncate_text(old_node.text, PreviewLength)>>,
            <<"+ ", truncate_text(new_node.text, PreviewLength)>> >>
    ELSE << <<", ", changes>> >>

\* Mutant: the kind and the name of the old entity.
ModifiedChange_old_kind(node_id, old_node, new_node, changes) ==
    [NodeChange("modified", node_id, old_node.node_type)
        EXCEPT !.name = old_node.name,
               !.old_text = old_node.text,
               !.new_text = new_node.text,
               !.details = format_change_details(old_node, new_node, changes)]

ModifiedChange(node_id, old_node, new_node, changes) ==
    [NodeChange("modified", node_id, new_node.node_type)
        EXCEPT !.name = new_node.name,
               !.old_text = old_node.text,
               !.new_text = new_node.text,
               !.details = format_change_details(old_node, new_node, changes)]

find_added_nodes(old_nodes, new_nodes, order) ==
    [k \in 1..Len(order) |-> AddedChange(order[k], new_nodes[order[k]])]

find_removed_nodes(old_nodes, new_nodes, order) ==
    [k \in 1..Len(order) |-> RemovedChange(order[k], old_nodes[order[k]])]

RECURSIVE find_modified_nodes(_, _, _, _)
find_modified_nodes(old_nodes, new_nodes, order, ignore_positions) ==
    IF order = <<>> THEN <<>>
    ELSE LET node_id == Head(order)
             old_node == old_nodes[node_id]
             new_node == new_nodes[node_id]
             changes == detect_node_changes(old_node, new_node, ignore_positions)
         IN (IF changes # <<>>
             THEN <<ModifiedChange(node_id, old_node, new_node, changes)>>
             ELSE <<>>)
            \o find_modified_nodes(old_nodes, new_nodes, Tail(order),
                                   ignore_positions)

\* The reports compare_snapshots may return: one for each order in which the
\* three id sets are iterated.
compare_snapshots(from_timestamp, to_timestamp, ignore_positions) ==
    LET resolved == resolve_comparison_timestamps(from_timestamp, to_timestamp)
        from_ts == resolved[1]
        to_ts == resolved[2]
    IN IF from_ts = None \/ to_ts = None
       THEN {empty_change_report(from_ts, to_ts)}
       ELSE LET old_snapshot == load_snapshot(from_ts)
                new_snapshot == load_snapshot(to_ts)
            IN IF old_snapshot = Absent \/ new_snapshot = Absent
               THEN {empty_change_report(from_ts, to_ts)}
               ELSE LET old_nodes == NodeMap(old_snapshot.nodes)
                        new_nodes == NodeMap(new_snapshot.nodes)
                    IN {[ChangeReport(from_ts, to_ts)
                           EXCEPT !.added = find_added_nodes(old_nodes, new_nodes, a),
                                  !.removed = find_removed_nodes(old_nodes, new_nodes, r),
                                  !.modified = find_modified_nodes(
                                      old_nodes, new_nodes, c, ignore_positions)] :
                          a \in Orderings(AddedIds(old_nodes, new_nodes)),
                          r \in Orderings(RemovedIds(old_nodes, new_nodes)),
                          c \in Orderings(CommonIds(old_nodes, new_nodes))}

(***************************************************************************)
(* The node parsers.  The raw text is a sequence of elements; an element   *)
(* is its tag name, the attributes of its opening tag in the order         *)
(* written (pairs of name and value), the text that follows the opening    *)
(* tag, and whether that text runs, without any markup inside, up to the   *)
(* closing tag of the element.  A regular-expression group that took no    *)
(* part in the match is <<>>, one that matched the value v is <<v>>.       *)
(***************************************************************************)
Element(tag, attrs, inner, closed) ==
    [tag |-> tag, attrs |-> attrs, inner |-> inner, closed |-> closed]

\* The optional groups of each parser's pattern, in the order the pattern
\* lists them, after the group of the id.
OptionalGroups(node_type) ==
    CASE node_type = "shape-with-text" ->
            <<"x", "y", "width", "height", "name">>
      [] node_type = "connector" ->
            <<"x", "y", "connectorStart", "connectorStartCap",
              "connectorEnd", "connectorEndCap">>
      [] node_type = "sticky" ->
            <<"x", "y", "color", "author", "width", "height">>
      [] node_type = "text" ->
            <<"name", "x", "y", "width", "height">>

\* (?:\s+a="([^"]*)")? for each optional group a in turn: the group matches
\* when the attribute at the position reached is a, and the match moves past
\* it; otherwise the group takes no part and the position stays.  What is
\* left of the opening tag goes to [^>]*.
RECURSIVE MatchGroups(_, _, _)
MatchGroups(attrs, p, groups) ==
    IF groups = <<>> THEN <<>>
    ELSE IF p <= Len(attrs) /\ attrs[p][1] = Head(groups)
         THEN << <<attrs[p][2]>> >> \o MatchGroups(attrs, p + 1, Tail(groups))
         ELSE << <<>> >> \o MatchGroups(attrs, p, Tail(groups))

\* The pattern of a parser matches at an element: the tag, then id="..." with
\* a value that is not empty as the first attribute, and, for every kind but
\* text, the inner text up to the closing tag.
Matches(node_type, e) ==
    /\ e.tag = node_type
    /\ Len(e.attrs) >= 1
    /\ e.attrs[1][1] = "id"
    /\ e.attrs[1][2] # ""
    /\ node_type = "text" \/ e.closed

\* The group of an optional attribute in a match, by the attribute's name.
Group(node_type, e, name) ==
    LET groups == OptionalGroups(node_type)
        k == CHOOSE i \in DOMAIN groups : groups[i] = name
    IN MatchGroups(e.attrs, 2, groups)[k]

\* float(value) for the values it accepts; it raises ValueError for the rest.
FloatOf ==
    [v \in {"0", "1", "2", "3", "4"} |->
        CASE v = "0" -> 0 [] v = "1" -> 1 [] v = "2" -> 2 [] v = "3" -> 3
          [] v = "4" -> 4]

\* Mutant: the default only for a missing or empty value, -1 for one float
\* rejects.
safe_float_minus_one(value, default) ==
    IF value = <<>> \/ value[1] = "" THEN default
    ELSE IF value[1] \in DOMAIN FloatOf THEN FloatOf[value[1]] ELSE -1

safe_float(value, default) ==
    IF value = <<>> \/ value[1] = "" THEN default
    ELSE IF value[1] \in DOMAIN FloatOf THEN FloatOf[value[1]] ELSE default

\* match.group(n) or ""
GroupOrEmpty(value) == IF value = <<>> THEN "" ELSE value[1]

Whitespace == {" "}

\* str.strip()
RECURSIVE strip(_)
strip(text) ==
    IF text = <<>> THEN <<>>
    ELSE IF Head(text) \in Whitespace THEN strip(Tail(text))
    ELSE IF text[Len(text)] \in Whitespace
         THEN strip(SubSeq(text, 1, Len(text) - 1))
         ELSE text

\* A name as a text: names are at most one character long.
TextOf(name) == IF name = "" THEN <<>> ELSE <<name>>

\* create_node of the four parsers.
create_node(node_type, e) ==
    LET g(name) == Group(node_type, e, name)
        node == [FigmaNode(e.attrs[1][2], node_type)
                    EXCEPT !.x = safe_float(g("x"), 0),
                           !.y = safe_float(g("y"), 0)]
    IN CASE node_type = "shape-with-text" ->
               [node EXCEPT !.width = safe_float(g("width"), 0),
                            !.height = safe_float(g("height"), 0),
                            !.name = GroupOrEmpty(g("name")),
                            !.text = strip(e.inner)]
         [] node_type = "connector" ->
               [node EXCEPT
                   !.connector_start = GroupOrEmpty(g("connectorStart")),
                   !.connector_start_cap = GroupOrEmpty(g("connectorStartCap")),
                   !.connector_end = GroupOrEmpty(g("connectorEnd")),
                   !.connector_end_cap = GroupOrEmpty(g("connectorEndCap")),
                   !.text = strip(e.inner)]
         [] node_type = "sticky" ->
               [node EXCEPT !.color = GroupOrEmpty(g("color")),
                            !.author = GroupOrEmpty(g("author")),
                            !.width = safe_float(g("width"), 0),
                            !.height = safe_float(g("height"), 0),
                            !.text = strip(e.inner)]
         [] node_type = "text" ->
               [node EXCEPT !.name = GroupOrEmpty(g("name")),
                            !.width = safe_float(g("width"), 0),
                            !.height = safe_float(g("height"), 0),
                            !.text = TextOf(GroupOrEmpty(g("name")))]

\* Mutant: the first match only.
parse_first_only(node_type, content) ==
    LET at == {k \in DOMAIN content : Matches(node_type, content[k])}
    IN IF at = {} THEN <<>>
       ELSE <<create_node(node_type,
                          content[CHOOSE k \in at : \A j \in at : k <= j])>>

\* NodeParser.parse: a node for every match of the pattern, in the order of
\* the matches in the text.
RECURSIVE parse(_, _)
parse(node_type, content) ==
    IF content = <<>> THEN <<>>
    ELSE (IF Matches(node_type, Head(content))
          THEN <<create_node(node_type, Head(content))>> ELSE <<>>)
         \o parse(node_type, Tail(content))

\* Mutant: the registry with sticky before connector.
NODE_PARSERS_sticky_first == <<"shape-with-text", "sticky", "connector", "text">>

NODE_PARSERS == <<"shape-with-text", "connector", "sticky", "text">>

RECURSIVE parse_with(_, _)
parse_with(parsers, content) ==
    IF parsers = <<>> THEN <<>>
    ELSE parse(Head(parsers), content) \o parse_with(Tail(parsers), content)

parse_all_nodes(content) == parse_with(NODE_PARSERS, content)

\* <section\s+id="([^"]+)"\s+name="([^"]+)": the elements it matches at.
SectionMatches(content) ==
    {k \in DOMAIN content :
        /\ content[k].tag = "section"
        /\ Len(content[k].attrs) >= 2
        /\ content[k].attrs[1][1] = "id" /\ content[k].attrs[1][2] # ""
        /\ content[k].attrs[2][1] = "name" /\ content[k].attrs[2][2] # ""}

\* Mutant: the last match.
parse_section_info_last(content, snapshot) ==
    IF SectionMatches(content) = {} THEN snapshot
    ELSE LET k == CHOOSE i \in SectionMatches(content) :
                      \A j \in SectionMatches(content) : i >= j
         IN [snapshot EXCEPT !.section_id = content[k].attrs[1][2],
                             !.section_name = content[k].attrs[2][2]]

\* _parse_section_info: re.search takes the first match.
parse_section_info(content, snapshot) ==
    IF SectionMatches(content) = {} THEN snapshot
    ELSE LET k == CHOOSE i \in SectionMatches(content) :
                      \A j \in SectionMatches(content) : i <= j
         IN [snapshot EXCEPT !.section_id = content[k].attrs[1][2],
                             !.section_name = content[k].attrs[2][2]]

\* parse_figjam_response at the time now.
parse_figjam_response(response_text, now) ==
    [parse_section_info(response_text, FigmaSnapshot(now, <<>>))
        EXCEPT !.raw_content = response_text,
               !.nodes = parse_all_nodes(response_text)]

(***************************************************************************)
(* Inputs                                                                  *)
(***************************************************************************)
Entity(id, node_type, name, text, x, y, connector_start, connector_end) ==
    [FigmaNode(id, node_type)
        EXCEPT !.name = name, !.text = text, !.x = x, !.y = y,
               !.connector_start = connector_start,
               !.connector_end = connector_end]

\* One entity of each id, and the first of them moved.
PlainNodes ==
    {Entity(i, "sticky", "", <<"a">>, 0, 0, "", "") : i \in NodeIds}
        \cup {Entity("n1", "sticky", "", <<"a">>, 1, 0, "", "")}

\* Entities of one id over every combination of the fields the diff reads.
RichNodes ==
    {Entity("n1", k, nm, tx, x, y, cs, ce) :
        k \in {"connector", "sticky"}, nm \in {"", "N"},
        tx \in {<<"a">>, <<"b">>}, x \in {0, 1}, y \in {0, 1},
        cs \in {"", "s"}, ce \in {"", "e"}}

\* A text one character longer than a preview, and one as long as a preview.
LongText == [k \in 1..(PreviewLength + 1) |-> "a"]

PreviewText == [k \in 1..PreviewLength |-> "b"]

\* Entities of that id with those texts.
LongNodes ==
    {Entity("n1", "sticky", "N", LongText, 0, 0, "", ""),
     Entity("n1", "sticky", "", PreviewText, 1, 0, "", "")}

\* Entities of that id that differ from the plain one in one field the diff
\* does not read.
UnreadNodes ==
    LET plain == Entity("n1", "sticky", "", <<"a">>, 0, 0, "", "")
    IN {[plain EXCEPT !.color = "c"], [plain EXCEPT !.author = "u"],
        [plain EXCEPT !.width = 1], [plain EXCEPT !.height = 1],
        [plain EXCEPT !.connector_start_cap = "p"],
        [plain EXCEPT !.connector_end_cap = "q"],
        [plain EXCEPT !.node_type = "text"]}

\* The entity sequences compared: every sequence of up to MaxNodes plain
\* entities (ids may repeat), every single rich entity, every single entity
\* of a long text and every single entity of an unread field.
NodeSeqs ==
    UNION {[1..n -> PlainNodes] : n \in 0..MaxNodes}
        \cup {<<n>> : n \in RichNodes \cup LongNodes \cup UnreadNodes}

\* The entity sequences saved while the store is explored.
SavedNodeSeqs ==
    {<<>>,
     <<Entity("n1", "sticky", "", <<"a">>, 0, 0, "", "")>>,
     <<Entity("n1", "sticky", "", <<"b">>, 1, 0, "", ""),
       Entity("n2", "connector", "", <<>>, 0, 0, "n1", "")>>}

TimestampArgs == {None, EmptyStr} \cup Timestamps

\* The board_name arguments: none, the empty string, the two boards
\* configured and two that are not.
BoardArgs ==
    {<<>>, <<"">>, <<"decision-tree">>, <<BoardName>>, <<"invalid-board">>,
     <<"ghost">>}

\* A value, not the default, for each optional attribute.
AttrValue(name) ==
    CASE name = "x" -> "1" [] name = "y" -> "2" [] name = "width" -> "3"
      [] name = "height" -> "4" [] name = "name" -> "N"
      [] name = "color" -> "c" [] name = "author" -> "u"
      [] name = "connectorStart" -> "s" [] name = "connectorStartCap" -> "p"
      [] name = "connectorEnd" -> "e" [] name = "connectorEndCap" -> "q"

Range(seq) == {seq[k] : k \in DOMAIN seq}

\* Up to MaxAttrs of the optional attributes of a kind, each once, in every
\* order.
AttrLists(node_type) ==
    LET names == Range(OptionalGroups(node_type))
        lists == UNION {[1..n -> names] : n \in 0..MaxAttrs}
    IN {[k \in DOMAIN l |-> <<l[k], AttrValue(l[k])>>] :
           l \in {m \in lists : \A i, j \in DOMAIN m : i # j => m[i] # m[j]}}

\* One element of each kind for every such list of attributes after the id.
RichElements ==
    UNION {{Element(t, <<<<"id", "n1">>>> \o attrs, <<"a">>, TRUE) :
               attrs \in AttrLists(t)} : t \in Range(NODE_PARSERS)}

\* Elements well formed and not: numeric values float takes and rejects, an
\* id met twice, inner text to strip, an element without its closing tag, an
\* id that is not the first attribute, two sections and a section whose name
\* does not follow its id.
PlainElements ==
    {Element("sticky", <<<<"id", "n1">>, <<"x", "1">>, <<"y", "2">>>>,
             <<" ", "a", " ">>, TRUE),
     Element("sticky", <<<<"id", "n1">>, <<"x", "abc">>, <<"y", "2">>>>,
             <<" ", "a", " ">>, TRUE),
     Element("sticky", <<<<"id", "n2">>, <<"x", "">>, <<"y", "2">>>>,
             <<"b">>, TRUE),
     Element("sticky", <<<<"id", "n3">>>>, <<"c">>, FALSE),
     Element("shape-with-text",
             <<<<"id", "n4">>, <<"x", "1">>, <<"width", "4px">>,
               <<"name", "N">>>>, <<"d">>, TRUE),
     Element("shape-with-text", <<<<"x", "1">>, <<"id", "n5">>>>,
             <<"e">>, TRUE),
     Element("connector",
             <<<<"id", "n6">>, <<"connectorStart", "n1">>,
               <<"connectorEnd", "n2">>>>, <<>>, TRUE),
     Element("text", <<<<"id", "n7">>, <<"name", "T">>, <<"x", "3">>>>,
             <<>>, FALSE),
     Element("section", <<<<"id", "s1">>, <<"name", "S">>>>, <<>>, FALSE),
     Element("section", <<<<"id", "s2">>, <<"name", "R">>>>, <<>>, FALSE),
     Element("section", <<<<"id", "s3">>, <<"x", "1">>, <<"name", "Q">>>>,
             <<>>, FALSE)}

\* The raw texts parsed: every sequence of up to MaxElements plain elements,
\* and every single rich element.
RawTexts ==
    UNION {[1..n -> PlainElements] : n \in 0..MaxElements}
        \cup {<<e>> : e \in RichElements}

(***************************************************************************)
(* State machine                                                           *)
(***************************************************************************)
NoIndex == [exists |-> FALSE]

Init ==
    /\ files = <<>>
    /\ index_file = NoIndex
    /\ clock = 1
    /\ last = [op |-> "init"]
    /\ result = None
    /\ board_dirs = {BoardName}
    /\ calls = <<>>

\* FigmaTracker.save_snapshot, _update_index included.
SaveSnapshot(snapshot) ==
    /\ Len(load_index.snapshots) < MaxSaves
    /\ board_dirs' = board_dirs \cup {BoardName}
    /\ UNCHANGED calls
    /\ files' = WriteFile(snapshot.timestamp, SnapshotToDict(snapshot))
    /\ index_file' = update_index(snapshot)
    /\ clock' = clock + 1
    /\ last' = [op |-> "save_snapshot", snapshot |-> snapshot]
    /\ result' = Filename(snapshot.timestamp)

\* Mutant: the index written back with its entries as list_snapshots sorted
\* them.
StoreUnchanged_index_sorted ==
    /\ index_file' =
          IF index_file.exists
          THEN [index_file EXCEPT !.data.snapshots = list_snapshots]
          ELSE index_file
    /\ UNCHANGED <<files, clock, board_dirs, calls>>

\* A call that writes no file and makes no directory.
StoreUnchanged == UNCHANGED <<files, index_file, clock, board_dirs, calls>>

\* FigmaTracker.compare_snapshots
CompareSnapshots(from_timestamp, to_timestamp, ignore_positions) ==
    /\ result' \in compare_snapshots(from_timestamp, to_timestamp,
                                     ignore_positions)
    /\ last' = [op |-> "compare_snapshots",
                from_timestamp |-> from_timestamp,
                to_timestamp |-> to_timestamp,
                ignore_positions |-> ignore_positions]
    /\ StoreUnchanged

\* FigmaTracker.load_snapshot
LoadSnapshot(timestamp) ==
    /\ result' = load_snapshot(timestamp)
    /\ last' = [op |-> "load_snapshot", timestamp |-> timestamp]
    /\ StoreUnchanged

\* FigmaTracker.list_snapshots
ListSnapshots ==
    /\ result' = list_snapshots
    /\ last' = [op |-> "list_snapshots"]
    /\ StoreUnchanged

\* FigmaTracker.get_snapshot_summary
GetSnapshotSummary(timestamp) ==
    /\ result' = get_snapshot_summary(timestamp)
    /\ last' = [op |-> "get_snapshot_summary", timestamp |-> timestamp]
    /\ StoreUnchanged

Next ==
    \/ \E t \in Timestamps, nodes \in SavedNodeSeqs :
          SaveSnapshot(FigmaSnapshot(t, nodes))
    \/ \E f \in TimestampArgs, t \in TimestampArgs, ig \in BOOLEAN :
          CompareSnapshots(f, t, ig)
    \/ \E t \in TimestampArgs : LoadSnapshot(t)
    \/ ListSnapshots
    \/ \E t \in TimestampArgs : GetSnapshotSummary(t)

Spec == Init /\ [][Next]_vars

(***************************************************************************)
(* The diff on its own: the store as two saves leave it, an old snapshot   *)
(* under timestamp 1 and a new one under timestamp 2, for every pair of    *)
(* entity sequences, and compare_snapshots applied to it.                  *)
(***************************************************************************)
DiffInit ==
    \E old \in NodeSeqs, new \in NodeSeqs :
        LET old_snapshot == FigmaSnapshot(1, old)
            new_snapshot == FigmaSnapshot(2, new)
        IN /\ files = <<SnapshotToDict(old_snapshot),
                        SnapshotToDict(new_snapshot)>>
           /\ index_file =
                 [exists |-> TRUE,
                  data |-> [board_name |-> BoardName,
                            file_key |-> BoardConfig.file_key,
                            node_id |-> BoardConfig.node_id,
                            snapshots |-> <<IndexEntry(old_snapshot, 1),
                                            IndexEntry(new_snapshot, 2)>>,
                            total_snapshots |-> 2,
                            last_updated |-> 2]]
           /\ clock = 3
           /\ last = [op |-> "save_snapshot", snapshot |-> new_snapshot]
           /\ result = Filename(2)
           /\ board_dirs = {BoardName}
           /\ calls = <<>>

DiffNext ==
    \E f \in Timestamps, ig \in BOOLEAN : CompareSnapshots(f, 2, ig)

DiffSpec == DiffInit /\ [][DiffNext]_vars

(***************************************************************************)
(* Extraction: a response of the FigJam tool is parsed, once or again, the *)
(* snapshot parsed is saved, and a snapshot is loaded back.                *)
(***************************************************************************)
ParseInit ==
    /\ files = <<>>
    /\ index_file = NoIndex
    /\ clock = 1
    /\ \E text \in RawTexts : last = [op |-> "get_figjam", response_text |-> text]
    /\ result = None
    /\ board_dirs = {BoardName}
    /\ calls = <<>>

\* FigmaTracker.parse_figjam_response on the response, the time passing.
ParseFigjamResponse ==
    /\ last.op \in {"get_figjam", "parse_figjam_response"}
    /\ clock <= MaxParses
    /\ result' = parse_figjam_response(last.response_text, clock)
    /\ last' = [op |-> "parse_figjam_response",
                response_text |-> last.response_text]
    /\ clock' = clock + 1
    /\ UNCHANGED <<files, index_file, board_dirs, calls>>

\* save_snapshot of the snapshot just parsed.
SaveParsed ==
    /\ last.op = "parse_figjam_response"
    /\ SaveSnapshot(result)

ParseNext ==
    \/ ParseFigjamResponse
    \/ SaveParsed
    \/ \E t \in {None} \cup DOMAIN files : LoadSnapshot(t)

ParseSpec == ParseInit /\ [][ParseNext]_vars

(***************************************************************************)
(* Construction: nothing on disk at first; trackers are constructed, and   *)
(* the one of BoardName, once constructed, saves snapshots.                *)
(***************************************************************************)
BoardInit ==
    /\ files = <<>>
    /\ index_file = NoIndex
    /\ clock = 1
    /\ last = [op |-> "init"]
    /\ result = None
    /\ board_dirs = {}
    /\ calls = <<>>

\* FigmaTracker(board_name)
Construct(board_name) ==
    /\ result' = FigmaTracker(board_name, board_dirs).result
    /\ board_dirs' = FigmaTracker(board_name, board_dirs).dirs
    /\ last' = [op |-> "FigmaTracker", board_name |-> board_name]
    /\ UNCHANGED <<files, index_file, clock, calls>>

\* save_snapshot on a tracker constructed for BoardName.
SaveOnBoard(snapshot) ==
    /\ BoardName \in board_dirs
    /\ SaveSnapshot(snapshot)

BoardNext ==
    \/ \E b \in BoardArgs : Construct(b)
    \/ \E t \in Timestamps, nodes \in SavedNodeSeqs :
          SaveOnBoard(FigmaSnapshot(t, nodes))

BoardSpec == BoardInit /\ [][BoardNext]_vars

(***************************************************************************)
(* _truncate_text on its own: every text of up to MaxLength characters and *)
(* every maximum length up to MaxLength.                                   *)
(***************************************************************************)
Texts == UNION {[1..n -> {"a", "b"}] : n \in 0..MaxLength}

TruncateInit ==
    /\ files = <<>>
    /\ index_file = NoIndex
    /\ clock = 1
    /\ \E text \in Texts, max_length \in 0..MaxLength :
          last = [op |-> "input", text |-> text, max_length |-> max_length]
    /\ result = None
    /\ board_dirs = {BoardName}
    /\ calls = <<>>

\* _truncate_text(text, max_length)
TruncateText ==
    /\ last.op = "input"
    /\ result' = truncate_text(last.text, last.max_length)
    /\ last' = [last EXCEPT !.op = "_truncate_text"]
    /\ UNCHANGED <<files, index_file, clock, board_dirs, calls>>

TruncateSpec == TruncateInit /\ [][TruncateText]_vars

(***************************************************************************)
(* save_snapshot step by step, called by two callers on the same board:    *)
(* each call makes the directory, writes the snapshot file, loads the      *)
(* index, and writes the index back with its entry appended.  A call in    *)
(* progress is the step it is at, its snapshot and the index it loaded.    *)
(***************************************************************************)
Callers == {"c1", "c2"}

\* Mutant: the index written before the snapshot file.
save_snapshot_steps_index_first ==
    <<"mkdir", "load_index", "write_index", "write_file">>

\* The steps of save_snapshot, _update_index included, in their order.
save_snapshot_steps == <<"mkdir", "write_file", "load_index", "write_index">>

\* The snapshots the callers save: one for each timestamp.
CallerSnapshots ==
    {FigmaSnapshot(1, <<Entity("n1", "sticky", "", <<"a">>, 0, 0, "", "")>>),
     FigmaSnapshot(2, <<>>)}

\* The index with the entry of a snapshot appended to the entries loaded.
write_index(index, snapshot) ==
    LET entries == Append(index.snapshots, IndexEntry(snapshot, clock))
    IN [exists |-> TRUE,
        data |-> [index EXCEPT !.snapshots = entries,
                               !.last_updated = clock,
                               !.total_snapshots = Len(entries)]]

\* The caller is at the step named.
AtStep(c, name) ==
    /\ c \in DOMAIN calls
    /\ save_snapshot_steps[calls[c].step] = name

\* The call moves to its next step with the index it holds, or returns
\* after the last one.
Advance(c, index) ==
    IF calls[c].step < Len(save_snapshot_steps)
    THEN /\ calls' = [calls EXCEPT ![c].step = @ + 1, ![c].index = index]
         /\ UNCHANGED <<last, result>>
    ELSE /\ calls' = [d \in DOMAIN calls \ {c} |-> calls[d]]
         /\ last' = [op |-> "save_snapshot", snapshot |-> calls[c].snapshot]
         /\ result' = Filename(calls[c].snapshot.timestamp)

\* A caller calls save_snapshot.
CallSaveSnapshot(c, snapshot) ==
    /\ c \notin DOMAIN calls
    /\ (clock - 1) + Cardinality(DOMAIN calls) < MaxSaves
    /\ calls' = [d \in DOMAIN calls \cup {c} |->
                    IF d = c
                    THEN [step |-> 1, snapshot |-> snapshot, index |-> NoIndex]
                    ELSE calls[d]]
    /\ UNCHANGED <<files, index_file, clock, last, result, board_dirs>>

\* self.snapshot_dir.mkdir(parents=True, exist_ok=True)
MakeDir(c) ==
    /\ AtStep(c, "mkdir")
    /\ board_dirs' = board_dirs \cup {BoardName}
    /\ Advance(c, calls[c].index)
    /\ UNCHANGED <<files, index_file, clock>>

\* json.dump(snapshot.to_dict(), f) into <timestamp>.json
WriteSnapshotFile(c) ==
    /\ AtStep(c, "write_file")
    /\ files' = WriteFile(calls[c].snapshot.timestamp,
                          SnapshotToDict(calls[c].snapshot))
    /\ Advance(c, calls[c].index)
    /\ UNCHANGED <<index_file, clock, board_dirs>>

\* index = self._load_index()
LoadIndex(c) ==
    /\ AtStep(c, "load_index")
    /\ Advance(c, load_index)
    /\ UNCHANGED <<files, index_file, clock, board_dirs>>

\* The entry appended to the index loaded, and json.dump(index, f).
WriteIndex(c) ==
    /\ AtStep(c, "write_index")
    /\ index_file' = write_index(calls[c].index, calls[c].snapshot)
    /\ clock' = clock + 1
    /\ Advance(c, calls[c].index)
    /\ UNCHANGED <<files, board_dirs>>

StepNext ==
    \/ \E c \in Callers, snapshot \in CallerSnapshots :
          CallSaveSnapshot(c, snapshot)
    \/ \E c \in Callers : MakeDir(c)
    \/ \E c \in Callers : WriteSnapshotFile(c)
    \/ \E c \in Callers : LoadIndex(c)
    \/ \E c \in Callers : WriteIndex(c)

StepSpec == Init /\ [][StepNext]_vars

(***************************************************************************)
(* download.compare_snapshots: two screenshot files compared by size.  The *)
(* screenshot directory is the sequence of its .png files in the order     *)
(* glob yields them; a file is its name (a text), its modification time in *)
(* days and its size in bytes; a path is a position in the directory.  A   *)
(* quotient of two integers is kept as <<numerator, denominator>>.         *)
(***************************************************************************)
MaxSize == 22
MaxFiles == 3

max_age_days == 30

\* datetime.now(), in days
now == 32

MTimes == {1, 2, 3}

PngFile(name, mtime, size) == [name |-> name, mtime |-> mtime, size |-> size]

\* board_name in file_path.name
Contains(sub, text) ==
    \E i \in 0..(Len(text) - Len(sub)) : SubSeq(text, i + 1, i + Len(sub)) = sub

\* The sort of find_figma_snapshots: newest first, files of one modification
\* time in the order they were found.
RECURSIVE SortNewestFirst(_, _)
SortNewestFirst(dir, found) ==
    IF found = <<>> THEN <<>>
    ELSE LET newest == CHOOSE k \in DOMAIN found :
                           /\ \A j \in DOMAIN found :
                                 dir[found[j]].mtime <= dir[found[k]].mtime
                           /\ \A j \in 1..(k - 1) :
                                 dir[found[j]].mtime < dir[found[k]].mtime
         IN <<found[newest]>> \o
            SortNewestFirst(dir, SubSeq(found, 1, newest - 1) \o
                                 SubSeq(found, newest + 1, Len(found)))

\* find_figma_snapshots(board_name): the paths of the files not older than
\* max_age_days whose name contains the board name, newest first.
find_figma_snapshots(dir, board_name) ==
    SortNewestFirst(dir,
        SelectSeq([k \in DOMAIN dir |-> k],
                  LAMBDA k :
                     /\ dir[k].mtime >= now - max_age_days
                     /\ ~(board_name # <<>>
                            /\ ~Contains(board_name, dir[k].name))))

Abs(n) == IF n < 0 THEN -n ELSE n

size_diff_percent(size_diff, size1) ==
    IF size1 > 0 THEN <<size_diff * 100, size1>> ELSE <<0, 1>>

\* Mutant: a change of exactly 5% counts.
likely_changed_from_five(percent) == Abs(percent[1]) >= 5 * percent[2]

\* abs(size_diff_percent) > 5
likely_changed(percent) == Abs(percent[1]) > 5 * percent[2]

\* The record compare_snapshots returns for two paths.
size_comparison(dir, snapshot1, snapshot2) ==
    LET size1 == dir[snapshot1].size
        size2 == dir[snapshot2].size
        size_diff == size2 - size1
    IN [snapshot1 |-> snapshot1,
        snapshot2 |-> snapshot2,
        size1 |-> size1,
        size2 |-> size2,
        size_diff |-> size_diff,
        size_diff_percent |-> size_diff_percent(size_diff, size1),
        likely_changed |->
            likely_changed(size_diff_percent(size_diff, size1))]

\* download.compare_snapshots(snapshot1, snapshot2, board_name)
download_compare_snapshots(dir, snapshot1, snapshot2, board_name) ==
    IF snapshot1 = None \/ snapshot2 = None
    THEN LET recent == find_figma_snapshots(dir, board_name)
         IN IF Len(recent) < 2
            THEN [error |-> "Not enough snapshots to compare",
                  snapshots_found |-> Len(recent)]
            ELSE size_comparison(dir, recent[2], recent[1])
    ELSE size_comparison(dir, snapshot1, snapshot2)

\* File names: of the board "dt", of another board "u".
PngNames == {<<"d", "t">>, <<"u">>}

\* Board names asked for: the board, and a part of its name.
PngBoards == {<<"d", "t">>, <<"t">>}

\* Directories searched: up to MaxFiles files, of two sizes 10% apart.
SearchedDirs ==
    UNION {[1..n -> {PngFile(name, mtime, size) :
                        name \in PngNames, mtime \in MTimes,
                        size \in {MaxSize - 2, MaxSize}}] : n \in 0..MaxFiles}

\* Two files of every size up to MaxSize, both paths given.
GivenInputs ==
    {[dir |-> <<PngFile(<<"d", "t">>, 3, size1),
                PngFile(<<"d", "t">>, 2, size2)>>,
      snapshot1 |-> 1, snapshot2 |-> 2, board_name |-> <<"d", "t">>] :
        size1 \in 0..MaxSize, size2 \in 0..MaxSize}

\* A path omitted: both, the first or the second.
OmittedInputs ==
    {[dir |-> dir, snapshot1 |-> paths[1], snapshot2 |-> paths[2],
      board_name |-> board_name] :
        dir \in SearchedDirs,
        paths \in {<<None, None>>, <<1, None>>, <<None, 1>>},
        board_name \in PngBoards}

DownloadInit ==
    /\ files = <<>>
    /\ index_file = NoIndex
    /\ clock = 1
    /\ \E input \in GivenInputs \cup
                      {i \in OmittedInputs :
                          \A path \in {i.snapshot1, i.snapshot2} :
                             path = None \/ path \in DOMAIN i.dir} :
          last = [op |-> "input", dir |-> input.dir,
                  snapshot1 |-> input.snapshot1,
                  snapshot2 |-> input.snapshot2,
                  board_name |-> input.board_name]
    /\ result = None
    /\ board_dirs = {BoardName}
    /\ calls = <<>>

\* download.compare_snapshots
DownloadCompareSnapshots ==
    /\ last.op = "input"
    /\ result' = download_compare_snapshots(last.dir, last.snapshot1,
                                            last.snapshot2, last.board_name)
    /\ last' = [last EXCEPT !.op = "download.compare_snapshots"]
    /\ UNCHANGED <<files, index_file, clock, board_dirs, calls>>

DownloadSpec == DownloadInit /\ [][DownloadCompareSnapshots]_vars

(***************************************************************************)
(* Properties                                                              *)
(***************************************************************************)
Compared == last.op = "compare_snapshots"

Saved == last.op = "save_snapshot"

\* The entities stored under a timestamp, in stored order.
StoredNodes(timestamp) ==
    [k \in 1..Len(files[timestamp].nodes) |->
        NodeFromDict(files[timestamp].nodes[k])]

IdsOf(nodes) == {nodes[k].id : k \in DOMAIN nodes}

\* The entity an id stands for in a snapshot: the one the id map keeps when
\* the id occurs more than once.
EntityOf(nodes, id) ==
    nodes[CHOOSE k \in DOMAIN nodes :
             nodes[k].id = id /\ \A j \in DOMAIN nodes : nodes[j].id = id => j <= k]

ChangeIds(changes) == {changes[k].node_id : k \in DOMAIN changes}

NoRepeat(changes) ==
    \A i, j \in DOMAIN changes : i # j => changes[i].node_id # changes[j].node_id

RecordsOf(changes, id) == {k \in DOMAIN changes : changes[k].node_id = id}

\* compare_snapshots was called on two stored snapshots, given by timestamp,
\* with at least two snapshots indexed.
DiffRan ==
    /\ Compared
    /\ last.from_timestamp \in DOMAIN files
    /\ last.to_timestamp \in DOMAIN files
    /\ Len(load_index.snapshots) >= 2

OldNodes == StoredNodes(last.from_timestamp)

NewNodes == StoredNodes(last.to_timestamp)

\* C1: for every pair of stored snapshots and either value of
\* ignore_positions, the ids of added, removed and modified are pairwise
\* disjoint, no id occurs twice inside one sequence, and every id reported is
\* an id of the old or of the new snapshot (every other id of old and new is
\* unchanged, with no record).
C1_DiffPartition ==
    DiffRan =>
        LET A == ChangeIds(result.added)
            R == ChangeIds(result.removed)
            M == ChangeIds(result.modified)
        IN /\ A \cap R = {} /\ A \cap M = {} /\ R \cap M = {}
           /\ NoRepeat(result.added)
           /\ NoRepeat(result.removed)
           /\ NoRepeat(result.modified)
           /\ A \cup R \cup M \subseteq IdsOf(OldNodes) \cup IdsOf(NewNodes)

\* An id added, another removed and a third modified in one report.
C1_Witness ==
    /\ DiffRan
    /\ result.added # <<>>
    /\ result.removed # <<>>
    /\ result.modified # <<>>

\* A report over a snapshot in which an id occurs twice.
C1_WitnessRepeatedId ==
    /\ DiffRan
    /\ Cardinality(IdsOf(NewNodes)) < Len(NewNodes)
    /\ result.modified # <<>>

\* C2: added holds exactly one record for each id of the new snapshot that is
\* not in the old one; the record has change_type "added", the kind, name and
\* text (as new_text) of a new entity of that id, and empty old_text and
\* details.
C2_Added ==
    DiffRan =>
        /\ ChangeIds(result.added) = IdsOf(NewNodes) \ IdsOf(OldNodes)
        /\ NoRepeat(result.added)
        /\ \A k \in DOMAIN result.added :
              \E j \in DOMAIN NewNodes :
                 result.added[k] =
                    [change_type |-> "added", node_id |-> NewNodes[j].id,
                     node_type |-> NewNodes[j].node_type,
                     name |-> NewNodes[j].name, old_text |-> <<>>,
                     new_text |-> NewNodes[j].text, details |-> <<>>]

\* An added record of a named connector.
C2_Witness ==
    /\ DiffRan
    /\ \E k \in DOMAIN result.added :
          /\ result.added[k].name = "N"
          /\ result.added[k].node_type = "connector"
          /\ result.added[k].new_text = <<"b">>

\* C3: removed holds exactly one record for each id of the old snapshot that
\* is not in the new one; the record has change_type "removed", the kind, name
\* and text (as old_text) of an old entity of that id, and empty new_text and
\* details.
C3_Removed ==
    DiffRan =>
        /\ ChangeIds(result.removed) = IdsOf(OldNodes) \ IdsOf(NewNodes)
        /\ NoRepeat(result.removed)
        /\ \A k \in DOMAIN result.removed :
              \E j \in DOMAIN OldNodes :
                 result.removed[k] =
                    [change_type |-> "removed", node_id |-> OldNodes[j].id,
                     node_type |-> OldNodes[j].node_type,
                     name |-> OldNodes[j].name,
                     old_text |-> OldNodes[j].text, new_text |-> <<>>,
                     details |-> <<>>]

\* A removed record of a named connector.
C3_Witness ==
    /\ DiffRan
    /\ \E k \in DOMAIN result.removed :
          /\ result.removed[k].name = "N"
          /\ result.removed[k].node_type = "connector"
          /\ result.removed[k].old_text = <<"b">>

\* The fields whose difference makes an entity modified; the kind read is
\* that of the old entity.
Significant(old_node, new_node, ignore_positions) ==
    \/ old_node.text # new_node.text
    \/ old_node.name # new_node.name
    \/ /\ old_node.node_type = "connector"
       /\ \/ old_node.connector_start # new_node.connector_start
          \/ old_node.connector_end # new_node.connector_end
    \/ /\ ~ignore_positions
       /\ old_node.x # new_node.x \/ old_node.y # new_node.y

\* C4: for every id present in both snapshots there is exactly one modified
\* record when the text differs, or the name differs, or the (old) entity is
\* a connector and connectorStart or connectorEnd differs, or
\* ignore_positions is false and x or y differs; and no record otherwise.
C4_Modified ==
    DiffRan =>
        \A id \in IdsOf(OldNodes) \cap IdsOf(NewNodes) :
            Cardinality(RecordsOf(result.modified, id)) =
                IF Significant(EntityOf(OldNodes, id), EntityOf(NewNodes, id),
                               last.ignore_positions)
                THEN 1 ELSE 0

\* A connector whose start alone differs is reported.
C4_Witness ==
    /\ DiffRan
    /\ Len(OldNodes) = 1 /\ Len(NewNodes) = 1
    /\ OldNodes[1].node_type = "connector"
    /\ OldNodes[1].connector_start # NewNodes[1].connector_start
    /\ [OldNodes[1] EXCEPT !.connector_start = ""] =
          [NewNodes[1] EXCEPT !.connector_start = ""]
    /\ Len(result.modified) = 1

\* An entity that differs in position alone, positions ignored: no record.
C4_WitnessUnchanged ==
    /\ DiffRan
    /\ last.ignore_positions
    /\ Len(OldNodes) = 1 /\ Len(NewNodes) = 1
    /\ OldNodes[1].id = NewNodes[1].id
    /\ OldNodes[1].x # NewNodes[1].x
    /\ result.modified = <<>>

\* Two entity sequences identical except for x and/or y of the entity at k.
PositionOnlyAt(old, new, k) ==
    /\ Len(old) = Len(new)
    /\ k \in DOMAIN old
    /\ old[k] # new[k]
    /\ [old[k] EXCEPT !.x = 0, !.y = 0] = [new[k] EXCEPT !.x = 0, !.y = 0]
    /\ \A j \in DOMAIN old : j # k => old[j] = new[j]

\* C5: for two snapshots identical except for x and/or y of one entity,
\* ignore_positions=true gives a report without changes, and
\* ignore_positions=false gives exactly one modified record, for that
\* entity, and no added or removed record.
C5_PositionToggle ==
    DiffRan =>
        \A k \in DOMAIN OldNodes :
            PositionOnlyAt(OldNodes, NewNodes, k) =>
                IF last.ignore_positions
                THEN ~has_changes(result)
                ELSE /\ result.added = <<>>
                     /\ result.removed = <<>>
                     /\ Len(result.modified) = 1
                     /\ result.modified[1].node_id = OldNodes[k].id

ListedTimestamps ==
    [k \in 1..Len(list_snapshots) |-> list_snapshots[k].timestamp]

\* C7: saving a snapshot again under the same timestamp leaves the snapshot
\* files, the entries list_snapshots returns and total_snapshots as the first
\* save left them.
C7_SaveIdempotent ==
    [][(Saved /\ Saved' /\ last'.snapshot = last.snapshot)
        => /\ files' = files
           /\ ListedTimestamps' = ListedTimestamps
           /\ load_index'.total_snapshots = load_index.total_snapshots]_vars

\* C8: with zero or one index entry, compare_snapshots with no timestamps
\* returns the report whose from_snapshot and to_snapshot are "(none)" and
\* whose three sequences are empty.
C8_NotEnoughSnapshots ==
    (Compared /\ last.from_timestamp = None /\ last.to_timestamp = None
        /\ Len(load_index.snapshots) < 2)
    => result = ChangeReport(NonePlaceholder, NonePlaceholder)

\* One snapshot stored and indexed, compared with no timestamps.
C8_Witness ==
    /\ Compared
    /\ last.from_timestamp = None /\ last.to_timestamp = None
    /\ Len(load_index.snapshots) = 1
    /\ DOMAIN files # {}

\* The timestamps compare_snapshots compares once at least two snapshots are
\* indexed: the given ones, the second-latest and latest indexed by default.
FromCompared ==
    IF last.from_timestamp = None
    THEN list_snapshots[2].timestamp ELSE last.from_timestamp

ToCompared ==
    IF last.to_timestamp = None
    THEN list_snapshots[1].timestamp ELSE last.to_timestamp

\* At least two snapshots are indexed and one of the two to compare has no
\* stored file.
Unloadable ==
    /\ Compared
    /\ Len(load_index.snapshots) >= 2
    /\ FromCompared \notin DOMAIN files \/ ToCompared \notin DOMAIN files

C9_WitnessEmptyTimestamp ==
    /\ Unloadable
    /\ last.from_timestamp = EmptyStr
    /\ last.to_timestamp \in DOMAIN files
    /\ result.from_snapshot = NonePlaceholder
    /\ result.to_snapshot = last.to_timestamp

\* The ids of old and new whose entities differ in a field the diff reads.
ModifiedIds(old, new, ignore_positions) ==
    {id \in IdsOf(old) \cap IdsOf(new) :
        Significant(EntityOf(old, id), EntityOf(new, id), ignore_positions)}

\* The report is a diff of the snapshots stored under the two timestamps the
\* call was given.
DiffOfGiven ==
    /\ result.from_snapshot = last.from_timestamp
    /\ result.to_snapshot = last.to_timestamp
    /\ ChangeIds(result.added) = IdsOf(NewNodes) \ IdsOf(OldNodes)
    /\ ChangeIds(result.removed) = IdsOf(OldNodes) \ IdsOf(NewNodes)
    /\ ChangeIds(result.modified) =
          ModifiedIds(OldNodes, NewNodes, last.ignore_positions)

\* compare_snapshots was given two timestamps with a snapshot stored under
\* each.
GivenStored ==
    /\ Compared
    /\ last.from_timestamp \in DOMAIN files
    /\ last.to_timestamp \in DOMAIN files

\* C10, as claimed: given explicit from_timestamp and to_timestamp with a
\* snapshot stored under each, the report is the diff of those two snapshots,
\* with from_snapshot and to_snapshot the given timestamps, whatever the
\* number of index entries.
C10_ExplicitTimestamps == GivenStored => DiffOfGiven

\* C10, amended: that holds when the index lists at least two entries; when
\* it lists fewer, the report is the empty one with "(none)" timestamps.
C10_ExplicitTimestampsIndexed ==
    GivenStored =>
        IF Len(load_index.snapshots) >= 2
        THEN DiffOfGiven
        ELSE result = ChangeReport(NonePlaceholder, NonePlaceholder)

\* The older of two stored snapshots given as to, the newer as from, against
\* the default order, with three index entries; the report has changes.
C10_Witness ==
    /\ GivenStored
    /\ Len(load_index.snapshots) = 3
    /\ last.from_timestamp > last.to_timestamp
    /\ result.from_snapshot = last.from_timestamp
    /\ result.added # <<>>
    /\ result.modified # <<>>

\* One snapshot stored, compared with itself by timestamp: the empty report.
C10_WitnessOneEntry ==
    /\ GivenStored
    /\ Len(load_index.snapshots) = 1
    /\ result.from_snapshot = NonePlaceholder

\* The greatest timestamp the index lists.
GreatestIndexed ==
    CHOOSE t \in {load_index.snapshots[k].timestamp :
                     k \in DOMAIN load_index.snapshots} :
        \A k \in DOMAIN load_index.snapshots :
            load_index.snapshots[k].timestamp <= t

\* C11: with at least two index entries, compare_snapshots with no
\* timestamps compares the second-latest snapshot against the latest one:
\* to_snapshot is the greatest indexed timestamp and from_snapshot is a
\* strictly older timestamp.
C11_DefaultCompare ==
    (Compared /\ last.from_timestamp = None /\ last.to_timestamp = None
        /\ Len(load_index.snapshots) >= 2)
    => /\ result.to_snapshot = GreatestIndexed
       /\ result.from_snapshot < result.to_snapshot
       /\ result.from_snapshot \in Timestamps

Loaded == last.op = "load_snapshot"

\* The greatest timestamp a snapshot is stored under.
GreatestStored ==
    CHOOSE t \in DOMAIN files : \A u \in DOMAIN files : u <= t

\* C12: load_snapshot(t) returns the snapshot stored under t, or absent when
\* nothing is stored under t; load_snapshot() with no timestamp returns the
\* stored snapshot with the greatest timestamp, or absent when no snapshot
\* is stored.
C12_LoadSnapshot ==
    Loaded =>
        LET t == IF last.timestamp = None /\ DOMAIN files # {}
                 THEN GreatestStored ELSE last.timestamp
        IN IF t \in DOMAIN files
           THEN /\ result # Absent
                /\ result.timestamp = t
                /\ result.nodes = StoredNodes(t)
                /\ SnapshotToDict(result) = files[t]
           ELSE result = Absent

\* Snapshots stored under both timestamps, the older saved last, and
\* load_snapshot() returns the one of the greater timestamp.
C12_Witness ==
    /\ Loaded
    /\ last.timestamp = None
    /\ DOMAIN files = Timestamps
    /\ load_index.snapshots[Len(load_index.snapshots)].timestamp = 1
    /\ result # Absent
    /\ result.timestamp = 2
    /\ result.nodes # <<>>

\* load_snapshot(t) with nothing stored under t while another snapshot is.
C12_WitnessAbsent ==
    /\ Loaded
    /\ last.timestamp \in Timestamps \ DOMAIN files
    /\ DOMAIN files # {}
    /\ result = Absent

Listed == last.op = "list_snapshots"

\* The entries are ordered newest first: each timestamp is >= the next one.
NewestFirst(entries) ==
    \A k \in 1..(Len(entries) - 1) :
        entries[k].timestamp >= entries[k + 1].timestamp

\* C13: after any sequence of save_snapshot calls in any timestamp order,
\* list_snapshots returns one metadata entry per saved snapshot (one entry
\* for each timestamp a snapshot is stored under, and no other), ordered
\* newest first.
C13_ListSnapshots ==
    Listed =>
        /\ {result[k].timestamp : k \in DOMAIN result} = DOMAIN files
        /\ Len(result) = Cardinality(DOMAIN files)
        /\ NewestFirst(result)

Parsed == last.op = "parse_figjam_response"

\* The snapshot load_snapshot returned is the one just saved.
LoadedSaved ==
    /\ Saved /\ Loaded'
    /\ last'.timestamp = last.snapshot.timestamp

\* The fields of an entity that hold their default: the empty string or 0.
DefaultFields(n) == {f \in NodeFields : n[f] = FalsyNode[f]}

Text == last.response_text

\* The field an optional attribute is extracted into.
FieldOf(name) ==
    CASE name = "connectorStart" -> "connector_start"
      [] name = "connectorStartCap" -> "connector_start_cap"
      [] name = "connectorEnd" -> "connector_end"
      [] name = "connectorEndCap" -> "connector_end_cap"
      [] OTHER -> name

\* The value a field holds for the value written in the attribute.
FieldValue(name, value) ==
    IF name \in {"x", "y", "width", "height"} THEN FloatOf[value] ELSE value

\* The attributes of an element after the id, in the order of the pattern.
CanonicalOrder(e) ==
    LET groups == OptionalGroups(e.tag)
        at(g) == {k \in 2..Len(e.attrs) : e.attrs[k][1] = g}
        present == SelectSeq(groups, LAMBDA g : at(g) # {})
    IN [e EXCEPT !.attrs =
           <<e.attrs[1]>>
              \o [k \in DOMAIN present |->
                     e.attrs[CHOOSE i \in at(present[k]) : TRUE]]]

\* C15: for an element whose opening tag has the id followed by optional
\* attributes of its kind in any order, any of them absent, the extracted
\* entity has each present attribute's value in the corresponding field and
\* the default in each absent one, the same as for the canonical order.
C15_AttributeOrder ==
    (Parsed /\ Len(Text) = 1 /\ Text[1] \in RichElements) =>
        LET e == Text[1]
            names == {e.attrs[k][1] : k \in 2..Len(e.attrs)}
        IN /\ Len(result.nodes) = 1
           /\ result.nodes = parse_all_nodes(<<CanonicalOrder(e)>>)
           /\ \A k \in 2..Len(e.attrs) :
                 result.nodes[1][FieldOf(e.attrs[k][1])] =
                    FieldValue(e.attrs[k][1], e.attrs[k][2])
           /\ \A g \in Range(OptionalGroups(e.tag)) \ names :
                 result.nodes[1][FieldOf(g)] = FalsyNode[FieldOf(g)]

\* C16: the snapshot parse_figjam_response returns contains no two entities
\* with the same id.
C16_UniqueIds ==
    Parsed =>
        \A i, j \in DOMAIN result.nodes :
            i # j => result.nodes[i].id # result.nodes[j].id

\* A well-formed element: its id, not empty, is the first attribute of the
\* opening tag, and its inner text runs to its closing tag (a text element
\* has no inner text to match).
WellFormed(e) ==
    /\ Len(e.attrs) >= 1
    /\ e.attrs[1][1] = "id" /\ e.attrs[1][2] # ""
    /\ e.closed \/ e.tag = "text"

\* The well-formed elements of a kind, in the order of the text.
Occurrences(content, node_type) ==
    SelectSeq(content, LAMBDA e : e.tag = node_type /\ WellFormed(e))

\* The entities of a kind, in the order of the snapshot.
NodesOfType(nodes, node_type) ==
    SelectSeq(nodes, LAMBDA n : n.node_type = node_type)

\* C17: each extractor returns one entity for every occurrence of its
\* element kind in the text, in the order the occurrences appear: n
\* well-formed elements of a kind yield n entities of that kind, the k-th
\* entity extracted from the k-th element.
C17_AllOccurrences ==
    Parsed =>
        \A t \in Range(NODE_PARSERS) :
            LET found == NodesOfType(result.nodes, t)
                there == Occurrences(Text, t)
            IN /\ Len(found) = Len(there)
               /\ found = parse(t, Text)
               /\ \A k \in DOMAIN found :
                     /\ found[k].id = there[k].attrs[1][2]
                     /\ found[k] = create_node(t, there[k])

\* Two well-formed sticky elements, of different ids: two sticky entities, in
\* the order of the text.
C17_Witness ==
    /\ Parsed
    /\ Len(Text) = 2
    /\ Len(NodesOfType(result.nodes, "sticky")) = 2
    /\ result.nodes[1].id = "n2" /\ result.nodes[2].id = "n1"
    /\ Text[1].attrs[1][2] = "n2"

NumericAttrs == {"x", "y", "width", "height"}

\* A value float does not take: the empty string, or one it rejects.
Malformed(value) == value = "" \/ value \notin DOMAIN FloatOf

\* The text with the value of the attribute at p of the element at k
\* replaced.
WithValue(content, k, p, value) ==
    [content EXCEPT ![k].attrs[p][2] = value]

\* The text without the attribute at p of the element at k.
WithoutAttr(content, k, p) ==
    [content EXCEPT ![k].attrs =
        [i \in 1..(Len(@) - 1) |-> IF i < p THEN @[i] ELSE @[i + 1]]]

\* C18: a numeric attribute (x, y, width, height) whose value is missing,
\* empty or not parsable as a number yields the default in that field (0, or
\* the default safe_float is given), and leaves every other field of the
\* entity and every sibling entity unchanged: the entities are those of the
\* text without the attribute, and those of the text with a number in its
\* place but for that one field of that one entity.
C18_DefaultOnMalformed ==
    Parsed =>
        /\ \A d \in {0, 1} :
              /\ safe_float(<<>>, d) = d
              /\ \A v \in {"", "abc", "4px"} : safe_float(<<v>>, d) = d
        /\ \A k \in DOMAIN Text :
              \A p \in 2..Len(Text[k].attrs) :
                 LET name == Text[k].attrs[p][1]
                     good == parse_all_nodes(WithValue(Text, k, p, "1"))
                     differ == {j \in DOMAIN good : result.nodes[j] # good[j]}
                 IN (name \in NumericAttrs /\ Malformed(Text[k].attrs[p][2]))
                    => /\ result.nodes = parse_all_nodes(WithoutAttr(Text, k, p))
                       /\ Len(result.nodes) = Len(good)
                       /\ Cardinality(differ) <= 1
                       /\ \A j \in differ :
                             /\ result.nodes[j].id = Text[k].attrs[1][2]
                             /\ result.nodes[j] = [good[j] EXCEPT ![name] = 0]

\* A sticky whose x is not a number, then one whose x is empty: both are
\* extracted, x at 0 and y as written.
C18_Witness ==
    /\ Parsed
    /\ Len(Text) = 2
    /\ Len(Text[1].attrs) = 3 /\ Text[1].attrs[2] = <<"x", "abc">>
    /\ Len(Text[2].attrs) = 3 /\ Text[2].attrs[2] = <<"x", "">>
    /\ Len(result.nodes) = 2
    /\ result.nodes[1].x = 0 /\ result.nodes[1].y = 2
    /\ result.nodes[1].text = <<"a">>
    /\ result.nodes[2].x = 0 /\ result.nodes[2].y = 2
    /\ result.nodes[2].id = "n2"

\* The ids of the well-formed elements of a kind, in the order of the text.
OccurrenceIds(content, node_type) ==
    [k \in DOMAIN Occurrences(content, node_type) |->
        Occurrences(content, node_type)[k].attrs[1][2]]

\* C19: extracting twice from the same raw text yields the same entity
\* sequence, and that sequence is the concatenation, in registry order
\* (shape-with-text, connector, sticky, text), of each extractor's entities
\* in document order.
C19_RegistryOrder ==
    /\ [][(Parsed /\ Parsed') => result'.nodes = result.nodes]_vars
    /\ [](Parsed =>
            /\ result.nodes =
                  NodesOfType(result.nodes, "shape-with-text")
                     \o NodesOfType(result.nodes, "connector")
                     \o NodesOfType(result.nodes, "sticky")
                     \o NodesOfType(result.nodes, "text")
            /\ [k \in DOMAIN result.nodes |-> result.nodes[k].id] =
                  OccurrenceIds(Text, "shape-with-text")
                     \o OccurrenceIds(Text, "connector")
                     \o OccurrenceIds(Text, "sticky")
                     \o OccurrenceIds(Text, "text"))

\* A sticky before a connector in the text, parsed a second time: the
\* connector comes first in the snapshot.
C19_Witness ==
    /\ Parsed
    /\ clock = 3
    /\ Len(Text) = 2
    /\ Text[1].tag = "sticky" /\ Text[2].tag = "connector"
    /\ Len(result.nodes) = 2
    /\ result.nodes[1].node_type = "connector"
    /\ result.nodes[2].node_type = "sticky"

Constructed == last.op = "FigmaTracker"

\* The board a construction is for: the one given, the default one when none
\* or the empty string is given.
BoardGiven(board_name) ==
    IF board_name \in {<<>>, <<"">>} THEN DEFAULT_FIGMA_BOARD
    ELSE board_name[1]

\* C20: constructing a FigmaTracker for a board name that has no
\* configuration fails with a ValueError that names the board, and leaves
\* the snapshot directories, the index and the snapshot files as they were:
\* no directory is created for the board.
C20_UnknownBoard ==
    [][(Constructed' /\ BoardGiven(last'.board_name) \notin
            DOMAIN FIGMA_BOARDS)
        => /\ result'.raised = "ValueError"
           /\ result'.message[2] = BoardGiven(last'.board_name)
           /\ BoardGiven(last'.board_name) \notin board_dirs'
           /\ UNCHANGED <<board_dirs, files, index_file>>]_vars

\* A tracker for an unknown board, after snapshots were saved on a known
\* one: the error names the board and only the known board has a directory.
C20_Witness ==
    /\ Constructed
    /\ last.board_name = <<"ghost">>
    /\ result = [raised |-> "ValueError",
                 message |-> <<"Unknown board: ", "ghost">>]
    /\ board_dirs = {BoardName}
    /\ DOMAIN files = Timestamps
    /\ index_file.exists

Truncated == last.op = "_truncate_text"

\* C21: _truncate_text(text, max) returns text unchanged when len(text) <=
\* max, len(text) = max included, and otherwise the first max characters
\* followed by "..."; the result is never longer than max + 3 characters.
C21_TruncateText ==
    Truncated =>
        /\ Len(last.text) <= last.max_length => result = last.text
        /\ Len(last.text) > last.max_length =>
              /\ Len(result) = last.max_length + 3
              /\ \A k \in 1..last.max_length : result[k] = last.text[k]
              /\ \A k \in 1..3 : result[last.max_length + k] = "."
        /\ Len(result) <= last.max_length + 3

\* A text one character longer than the maximum: cut, the ellipsis added.
C21_Witness ==
    /\ Truncated
    /\ last.max_length = 2
    /\ last.text = <<"a", "b", "a">>
    /\ result = <<"a", "b", ".", ".", ".">>

\* A text of exactly the maximum length: unchanged.
C21_WitnessAtLength ==
    /\ Truncated
    /\ last.max_length = 3
    /\ Len(last.text) = 3
    /\ result = last.text

\* C22: for a common id whose text differs, the single modified record
\* carries the old entity's full text as old_text, the new entity's full
\* text as new_text, and the kind and name of the new entity, also when the
\* old entity's kind or name is another.
C22_ModifiedRecord ==
    DiffRan =>
        \A id \in IdsOf(OldNodes) \cap IdsOf(NewNodes) :
            LET old_node == EntityOf(OldNodes, id)
                new_node == EntityOf(NewNodes, id)
            IN old_node.text # new_node.text =>
                  /\ Cardinality(RecordsOf(result.modified, id)) = 1
                  /\ \A k \in RecordsOf(result.modified, id) :
                        /\ result.modified[k].change_type = "modified"
                        /\ result.modified[k].old_text = old_node.text
                        /\ result.modified[k].new_text = new_node.text
                        /\ result.modified[k].node_type = new_node.node_type
                        /\ result.modified[k].name = new_node.name

\* A named connector became an unnamed sticky of another text.
C22_Witness ==
    /\ DiffRan
    /\ Len(OldNodes) = 1 /\ Len(NewNodes) = 1
    /\ OldNodes[1].node_type = "connector" /\ OldNodes[1].name = "N"
    /\ Len(result.modified) = 1
    /\ result.modified[1].node_type = "sticky"
    /\ result.modified[1].name = ""
    /\ result.modified[1].old_text = <<"a">>
    /\ result.modified[1].new_text = <<"b">>

\* A text longer than a preview is carried in full.
C22_WitnessFullText ==
    /\ DiffRan
    /\ Len(result.modified) = 1
    /\ result.modified[1].old_text = LongText
    /\ result.modified[1].new_text = PreviewText

\* The section elements of a text that give an id and then a name, in the
\* order of the text.
Sections(content) ==
    SelectSeq(content,
              LAMBDA e : /\ e.tag = "section"
                         /\ Len(e.attrs) >= 2
                         /\ e.attrs[1][1] = "id" /\ e.attrs[1][2] # ""
                         /\ e.attrs[2][1] = "name" /\ e.attrs[2][2] # "")

\* C23: parse_figjam_response sets section_id and section_name from the
\* first <section id=.. name=..> of the text, leaves both empty when there
\* is none, and never adds a section to the entity sequence.
C23_SectionInfo ==
    Parsed =>
        /\ IF Sections(Text) = <<>>
           THEN result.section_id = "" /\ result.section_name = ""
           ELSE /\ result.section_id = Sections(Text)[1].attrs[1][2]
                /\ result.section_name = Sections(Text)[1].attrs[2][2]
        /\ \A k \in DOMAIN result.nodes :
              /\ result.nodes[k].node_type \in Range(NODE_PARSERS)
              /\ \A j \in DOMAIN Text :
                    Text[j].tag = "section" =>
                        result.nodes[k].id # Text[j].attrs[1][2]

\* Two sections: the first one is taken.
C23_Witness ==
    /\ Parsed
    /\ Len(Sections(Text)) = 2
    /\ Sections(Text)[1].attrs[2][2] = "R"
    /\ Sections(Text)[2].attrs[2][2] = "S"
    /\ result.section_name = "R" /\ result.section_id = "s2"
    /\ result.nodes = <<>>

\* A section and an entity: the section is in the snapshot's fields only.
C23_WitnessEntity ==
    /\ Parsed
    /\ Len(Text) = 2
    /\ result.section_name = "S"
    /\ Len(result.nodes) = 1

\* No section that gives an id and then a name: both fields stay empty.
C23_WitnessNone ==
    /\ Parsed
    /\ Len(Text) = 2
    /\ Text[1].tag = "section"
    /\ result.section_id = "" /\ result.section_name = ""
    /\ Len(result.nodes) = 1

\* A text as details show it: the first 40 characters and "..." when it is
\* longer than 40, the text itself otherwise.
Preview(text) ==
    IF Len(text) <= 40 THEN text
    ELSE [k \in 1..43 |-> IF k <= 40 THEN text[k] ELSE "."]

\* The changes other than the text that the diff reads between two entities,
\* in the order name, connector start, connector end, position.
Triggered(old_node, new_node, ignore_positions) ==
    SelectSeq(<<"name", "start", "end", "moved">>,
              LAMBDA c :
                 \/ c = "name" /\ old_node.name # new_node.name
                 \/ /\ c = "start"
                    /\ old_node.node_type = "connector"
                    /\ old_node.connector_start # new_node.connector_start
                 \/ /\ c = "end"
                    /\ old_node.node_type = "connector"
                    /\ old_node.connector_end # new_node.connector_end
                 \/ /\ c = "moved"
                    /\ ~ignore_positions
                    /\ old_node.x # new_node.x \/ old_node.y # new_node.y)

\* The old and the new value a change description gives.
Described(c, old_node, new_node) ==
    CASE c = "name" -> <<c, old_node.name, new_node.name>>
      [] c = "start" ->
            <<c, old_node.connector_start, new_node.connector_start>>
      [] c = "end" -> <<c, old_node.connector_end, new_node.connector_end>>
      [] c = "moved" ->
            <<c, <<old_node.x, old_node.y>>, <<new_node.x, new_node.y>> >>

\* C24: when the text differs, the details of a modified record are exactly
\* two lines, the old text and the new text each cut to 40 characters and
\* prefixed "- " and "+ ", and no other change is in them; when the text
\* does not differ, details are the descriptions of all triggered changes
\* joined with ", ", in the order name, connector start, connector end,
\* position.
C24_Details ==
    DiffRan =>
        \A k \in DOMAIN result.modified :
            LET id == result.modified[k].node_id
                old_node == EntityOf(OldNodes, id)
                new_node == EntityOf(NewNodes, id)
                other == Triggered(old_node, new_node, last.ignore_positions)
                details == result.modified[k].details
            IN IF old_node.text # new_node.text
               THEN details = << <<"- ", Preview(old_node.text)>>,
                                 <<"+ ", Preview(new_node.text)>> >>
               ELSE /\ Len(details) = 1
                    /\ details[1][1] = ", "
                    /\ details[1][2] =
                          [j \in DOMAIN other |->
                              Described(other[j], old_node, new_node)]

\* A text of 41 characters against one of 40, the name and the position
\* other too: two lines, the first cut.
C24_Witness ==
    /\ DiffRan
    /\ ~last.ignore_positions
    /\ Len(result.modified) = 1
    /\ result.modified[1].old_text = LongText
    /\ result.modified[1].new_text = PreviewText
    /\ OldNodes[1].name # NewNodes[1].name
    /\ OldNodes[1].x # NewNodes[1].x
    /\ Len(result.modified[1].details) = 2
    /\ Len(result.modified[1].details[1][2]) = 43
    /\ result.modified[1].details[2][2] = PreviewText

\* The same text, and the name, both ends and the position other: the four
\* descriptions, in that order.
C24_WitnessJoined ==
    /\ DiffRan
    /\ Len(result.modified) = 1
    /\ result.modified[1].old_text = result.modified[1].new_text
    /\ Len(result.modified[1].details) = 1
    /\ Len(result.modified[1].details[1][2]) = 4
    /\ result.modified[1].details[1][2][1][1] = "name"
    /\ result.modified[1].details[1][2][4][1] = "moved"

\* C25: the index is append-only and self-consistent: total_snapshots is
\* the number of index entries; every entry written by an earlier save is
\* still there, unchanged and in its place; and each save adds exactly one
\* entry, with the timestamp of the snapshot, the filename <timestamp>.json
\* and node_count the number of entities saved.
C25_AppendOnlyIndex ==
    /\ [](load_index.total_snapshots = Len(load_index.snapshots))
    /\ [][/\ Len(load_index'.snapshots) >= Len(load_index.snapshots)
          /\ SubSeq(load_index'.snapshots, 1, Len(load_index.snapshots)) =
                load_index.snapshots
          /\ (Saved' /\ clock' # clock) =>
                LET entries == load_index'.snapshots
                    entry == entries[Len(entries)]
                IN /\ Len(entries) = Len(load_index.snapshots) + 1
                   /\ entry.timestamp = last'.snapshot.timestamp
                   /\ entry.filename = <<last'.snapshot.timestamp, ".json">>
                   /\ entry.node_count = Len(last'.snapshot.nodes)]_vars

\* Three saves, the newest first and the oldest saved again: three entries in
\* the order of the saves.
C25_Witness ==
    /\ Saved
    /\ Len(load_index.snapshots) = 3
    /\ load_index.total_snapshots = 3
    /\ load_index.snapshots[1].timestamp = 2
    /\ load_index.snapshots[2].timestamp = 1
    /\ load_index.snapshots[3].timestamp = 1
    /\ load_index.snapshots[1].node_count = 2
    /\ load_index.snapshots[3].node_count = 1

\* The timestamps the index lists.
IndexedTimestamps ==
    {load_index.snapshots[k].timestamp : k \in DOMAIN load_index.snapshots}

\* No save_snapshot call is in progress.
Quiescent == DOMAIN calls = {}

\* C26: when two save_snapshot calls for distinct timestamps on the same
\* board interleave, after both complete the index lists both timestamps
\* and total_snapshots counts both: no index entry is lost.
C26_NoLostEntry ==
    (Quiescent /\ clock = 3 /\ DOMAIN files = {1, 2}) =>
        /\ IndexedTimestamps = {1, 2}
        /\ load_index.total_snapshots = 2

\* C27: in every state reachable by save_snapshot calls, the states between
\* the steps of a save included, every timestamp the index lists has a
\* stored snapshot file, so load_snapshot of a listed timestamp does not
\* return absent.
C27_IndexedAreStored ==
    /\ IndexedTimestamps \subseteq DOMAIN files
    /\ \A t \in IndexedTimestamps : load_snapshot(t) # Absent

\* Between the steps of a save: its file is written, its entry is not yet,
\* and the index lists an earlier save.
C27_Witness ==
    /\ \E c \in DOMAIN calls :
          /\ AtStep(c, "write_index")
          /\ calls[c].snapshot.timestamp \in DOMAIN files
          /\ calls[c].snapshot.timestamp \notin IndexedTimestamps
    /\ IndexedTimestamps # {}

\* The fields the claim lists as not compared.
UnreadFields ==
    {"node_type", "color", "author", "width", "height",
     "connector_start_cap", "connector_end_cap"}

\* Two entities are the same in every field but those.
SameButUnread(old_node, new_node) ==
    \A f \in NodeFields \ UnreadFields : old_node[f] = new_node[f]

\* C28: two entities with the same id that differ only in kind, color,
\* author, width, height, connectorStartCap or connectorEndCap produce no
\* change record, whether positions are ignored or not; and a
\* connectorStart or connectorEnd that differs is reported only when the old
\* entity's kind is connector.
C28_UnreadFields ==
    DiffRan =>
        \A id \in IdsOf(OldNodes) \cap IdsOf(NewNodes) :
            LET old_node == EntityOf(OldNodes, id)
                new_node == EntityOf(NewNodes, id)
                records == RecordsOf(result.modified, id)
            IN /\ SameButUnread(old_node, new_node) => records = {}
               /\ \A k \in records :
                     LET changes == result.modified[k].details[1][2]
                     IN (old_node.text = new_node.text
                            /\ old_node.node_type # "connector")
                        => \A j \in DOMAIN changes :
                              changes[j][1] \notin {"start", "end"}
               /\ (/\ old_node.node_type # "connector"
                   /\ SameButUnread(
                         [old_node EXCEPT !.connector_start = "",
                                          !.connector_end = ""],
                         [new_node EXCEPT !.connector_start = "",
                                          !.connector_end = ""]))
                  => records = {}

\* Two entities that differ in color alone, positions compared: no record.
C28_Witness ==
    /\ DiffRan
    /\ ~last.ignore_positions
    /\ Len(OldNodes) = 1 /\ Len(NewNodes) = 1
    /\ OldNodes[1].color = "" /\ NewNodes[1].color = "c"
    /\ SameButUnread(OldNodes[1], NewNodes[1])
    /\ ~has_changes(result)

\* A sticky whose connectorStart differs from the new entity's: no record.
C28_WitnessNotConnector ==
    /\ DiffRan
    /\ Len(OldNodes) = 1 /\ Len(NewNodes) = 1
    /\ OldNodes[1].node_type = "sticky"
    /\ NewNodes[1].node_type = "connector"
    /\ OldNodes[1].connector_start # NewNodes[1].connector_start
    /\ OldNodes[1].id = NewNodes[1].id
    /\ ~has_changes(result)

\* The calls the claim names.
ReadingCalls ==
    {"compare_snapshots", "list_snapshots", "load_snapshot",
     "get_snapshot_summary"}

\* C29: compare_snapshots, list_snapshots, load_snapshot and
\* get_snapshot_summary are read-only: whatever their arguments and result,
\* they leave the index entries, total_snapshots and every stored snapshot
\* unchanged.
C29_ReadOnly ==
    [][last'.op \in ReadingCalls =>
          /\ load_index'.snapshots = load_index.snapshots
          /\ load_index'.total_snapshots = load_index.total_snapshots
          /\ index_file' = index_file
          /\ files' = files]_vars

\* list_snapshots returned entries in another order than the index holds
\* them.
C29_Witness ==
    /\ Listed
    /\ Len(result) = 3
    /\ result # load_index.snapshots
    /\ DOMAIN files = Timestamps

\* get_snapshot_summary of the latest snapshot: two entities, of two kinds.
C29_WitnessSummary ==
    /\ last.op = "get_snapshot_summary"
    /\ last.timestamp = None
    /\ result # Absent
    /\ result.total_nodes = 2
    /\ result.node_types = [t \in {"sticky", "connector"} |-> 1]

\* get_snapshot_summary of a timestamp nothing is stored under.
C29_WitnessAbsent ==
    /\ last.op = "get_snapshot_summary"
    /\ last.timestamp \in Timestamps \ DOMAIN files
    /\ index_file.exists
    /\ result = Absent

\* download.compare_snapshots has returned.
SizesCompared == last.op = "download.compare_snapshots"

\* The snapshots find_figma_snapshots finds: not older than max_age_days,
\* the board name in their name.
Found ==
    {k \in DOMAIN last.dir :
        /\ last.dir[k].mtime >= now - max_age_days
        /\ Contains(last.board_name, last.dir[k].name)}

\* C30: download.compare_snapshots on two given files returns size_diff =
\* size2 - size1 and likely_changed true exactly when size1 > 0 and
\* |size2 - size1| is more than 5% of size1; when either path is omitted, the
\* two compared are the two most recent snapshots found for the board, the
\* newer as snapshot2, and with fewer than two found the result is an error
\* record with the number found and no comparison.
C30_SizeComparison ==
    SizesCompared =>
       LET given == last.snapshot1 # None /\ last.snapshot2 # None
           enough == given \/ Cardinality(Found) >= 2
       IN /\ enough =>
                /\ DOMAIN result =
                      {"snapshot1", "snapshot2", "size1", "size2", "size_diff",
                       "size_diff_percent", "likely_changed"}
                /\ result.size1 = last.dir[result.snapshot1].size
                /\ result.size2 = last.dir[result.snapshot2].size
                /\ result.size_diff = result.size2 - result.size1
                /\ result.likely_changed =
                      (/\ result.size1 > 0
                       /\ 100 * Abs(result.size2 - result.size1) >
                             5 * result.size1)
          /\ given =>
                /\ result.snapshot1 = last.snapshot1
                /\ result.snapshot2 = last.snapshot2
          /\ (~given /\ enough) =>
                /\ {result.snapshot1, result.snapshot2} \subseteq Found
                /\ result.snapshot1 # result.snapshot2
                /\ last.dir[result.snapshot2].mtime >=
                      last.dir[result.snapshot1].mtime
                /\ \A k \in Found \ {result.snapshot1, result.snapshot2} :
                      last.dir[k].mtime <= last.dir[result.snapshot1].mtime
          /\ ~enough =>
                /\ DOMAIN result = {"error", "snapshots_found"}
                /\ result.snapshots_found = Cardinality(Found)

\* Two given files, the second exactly 5% larger: not reported as changed.
C30_Witness ==
    /\ SizesCompared
    /\ last.snapshot1 = 1
    /\ last.snapshot2 = 2
    /\ result.size1 = 20
    /\ result.size2 = 21
    /\ result.size_diff = 1
    /\ ~result.likely_changed

\* Two given files, the second smaller by more than 5%.
C30_WitnessChanged ==
    /\ SizesCompared
    /\ last.snapshot1 = 1
    /\ last.snapshot2 = 2
    /\ result.size1 = 20
    /\ result.size2 = 18
    /\ result.size_diff = -2
    /\ result.likely_changed

\* A first file of size 0 and a second that is not empty.
C30_WitnessEmptyFirst ==
    /\ SizesCompared
    /\ last.snapshot1 = 1
    /\ last.snapshot2 = 2
    /\ result.size1 = 0
    /\ result.size2 = MaxSize
    /\ ~result.likely_changed

\* Only the first path given, and it is not one of the two most recent: it
\* is replaced as well.
C30_WitnessReplaced ==
    /\ SizesCompared
    /\ last.snapshot1 = 1
    /\ last.snapshot2 = None
    /\ Len(last.dir) = 3
    /\ "error" \notin DOMAIN result
    /\ 1 \notin {result.snapshot1, result.snapshot2}
    /\ result.likely_changed

\* A path omitted and one snapshot found among three files.
C30_WitnessError ==
    /\ SizesCompared
    /\ last.snapshot2 = None
    /\ Len(last.dir) = 3
    /\ result = [error |-> "Not enough snapshots to compare",
                 snapshots_found |-> 1]

====
